---- MODULE Spec2Model ----
(***************************************************************************)
(* Particle swarm optimisation: SwarmBuilder.build_from_dict, the staged   *)
(* pipeline (pso/processors) and PSORunner.run, as a state machine.        *)
(*                                                                         *)
(* Reals are modelled on the integer grid.  A draw from U(low, high) is    *)
(* any grid point of [low, high); the product weight * U(0,1) is any grid  *)
(* point of [0, weight).  Every behaviour of the model is therefore a      *)
(* behaviour some sequence of random draws gives the program.              *)
(***************************************************************************)
EXTENDS Integers, Sequences, FiniteSets, TLC

VARIABLES
    swarm_dict,     \* build_from_dict's argument: key -> value
    pending,        \* keys of swarm_dict the loop of build_from_dict has not reached
    swarm,          \* the Swarm object
    particles,      \* swarm.particles: the Particle objects, in order
    pc,             \* "build_from_dict", "built", "pipeline", "done", "failed"
    pipeline,       \* PSOPipeline.processors of the runner's pipeline
    idx,            \* PSOPipeline.run: index of the next processor
    handed,         \* PSOPipeline.run: what its local `swarm` is bound to
    runner_swarm,   \* PSORunner.swarm: what it is bound to
    i,              \* PSORunner.run: the loop variable of range(max_iterations)
    pipeline_runs,  \* number of calls of PSOPipeline.run
    export_calls,   \* swarm.current_iteration at each call of MongoDBExporter.process
    err,            \* the exception that ended the program, or "none"
    convergence     \* the ConvergenceCalculator constructed last, or NoCalculator

vars == <<swarm_dict, pending, swarm, particles, pc, pipeline, idx, handed,
          runner_swarm, i, pipeline_runs, export_calls, err, convergence>>

---------------------------------------------------------------------------
(* Bounds of the model *)

MaxIterations == 2
MaxBound == 2
MaxParticles == 5

---------------------------------------------------------------------------
(* Values *)

\* None, for a field that holds a vector or a list
None == <<>>
\* None, for a field that holds a number (Swarm.__init__ defaults)
NoneNum == -1
\* Swarm.bounds: None, or the list with_bounds stored (which may be the empty list)
NoneList == [k |-> "None", v |-> <<>>]
List(v) == [k |-> "list", v |-> v]

\* floats with the infinities, and None for a score not yet computed
Num(n) == [k |-> "num", v |-> n]
Inf == [k |-> "inf", v |-> 0]
NegInf == [k |-> "-inf", v |-> 0]
NoneScore == [k |-> "None", v |-> 0]

\* a < b on floats
Lt(a, b) ==
    \/ a.k = "-inf" /\ b.k # "-inf"
    \/ b.k = "inf" /\ a.k # "inf"
    \/ a.k = "num" /\ b.k = "num" /\ a.v < b.v

Gt(a, b) == Lt(b, a)

Min2(a, b) == IF a < b THEN a ELSE b
Max2(a, b) == IF a > b THEN a ELSE b
Abs(a) == IF a < 0 THEN -a ELSE a

RECURSIVE SumSeq(_)
SumSeq(s) == IF s = <<>> THEN 0 ELSE Head(s) + SumSeq(Tail(s))

\* floor of the square root
ISqrt(n) == CHOOSE r \in 0..n : r * r <= n /\ (r + 1) * (r + 1) > n

\* np.clip(v, lower, upper), element-wise: minimum(maximum(v, lower), upper)
Clip(v, lower, upper) ==
    [d \in 1..Len(v) |-> Min2(Max2(v[d], lower[d]), upper[d])]

\* np.random.uniform(low, high): the grid points of [low, high); low when high = low
Uniform(low, high) == IF low >= high THEN {low} ELSE low..(high - 1)

\* weight * np.random.random(): the grid points of [0, weight)
Coefficient(weight) == IF weight <= 0 THEN {0} ELSE 0..(weight - 1)

---------------------------------------------------------------------------
(* pso/fitness/functions.py *)

sphere(position) == SumSeq([d \in 1..Len(position) |-> position[d] * position[d]])

\* Whether objective_function(position) raises (an index past the end)
ObjectiveRaises(name, position) ==
    \/ position = None
    \/ name = "quadratic_2d" /\ Len(position) < 2

\* On the grid cos(2*pi*x) = 1, so rastrigin is the sum of the squares.
Objective(name, position) ==
    CASE name = "sphere" -> sphere(position)
      [] name = "quadratic_1d" -> position[1] * position[1]
      [] name = "quadratic_2d" -> position[1] * position[1] + position[2] * position[2]
      [] name = "rastrigin" -> sphere(position)

FitnessNames == {"quadratic_1d", "quadratic_2d", "sphere", "rastrigin"}

---------------------------------------------------------------------------
(* pso/swarm/particle.py, pso/swarm/swarm.py *)

NewParticle(problem_type) ==
    [problem_type |-> problem_type,
     position |-> None,
     velocity |-> None,
     best_position |-> None,
     best_score |-> IF problem_type = "min" THEN Inf ELSE NegInf,
     score |-> NoneScore,
     neighbours |-> <<>>]

NewSwarm ==
    [current_iteration |-> 0,
     finished_at |-> "None",
     max_iterations |-> NoneNum,
     problem_type |-> "None",
     num_particles |-> NoneNum,
     dimensions |-> NoneNum,
     bounds |-> NoneList,
     lower_bounds |-> None,
     upper_bounds |-> None,
     cognitive_weight |-> NoneNum,
     social_weight |-> NoneNum,
     inertia_weight |-> NoneNum,
     objective_function |-> "None",
     global_best_score |-> NoneScore,
     global_best_position |-> None,
     position_initialised |-> FALSE,
     velocity_initialised |-> FALSE,
     topology_initialised |-> FALSE,
     score_precision |-> <<>>,
     position_precision |-> <<>>,
     converged |-> FALSE,
     convergence_iteration |-> NoneNum,
     convergence_rate |-> NoneNum]

\* no ConvergenceCalculator has been constructed
NoCalculator == [function_name |-> "None", dimensions |-> NoneNum,
                 optimal_position |-> None, optimal_score |-> NoneNum]

\* the best replaced by every new score
evaluate_always(p, objective_function) ==
    LET s == Num(Objective(objective_function, p.position)) IN
    [p EXCEPT !.score = s, !.best_score = s, !.best_position = p.position]

\* the best replaced by a score that equals it as well
evaluate_on_ties(p, objective_function) ==
    LET s == Num(Objective(objective_function, p.position)) IN
    IF p.problem_type = "max" /\ ~Lt(s, p.best_score)
    THEN [p EXCEPT !.score = s, !.best_score = s, !.best_position = p.position]
    ELSE IF p.problem_type = "min" /\ ~Gt(s, p.best_score)
    THEN [p EXCEPT !.score = s, !.best_score = s, !.best_position = p.position]
    ELSE [p EXCEPT !.score = s]

\* Particle.evaluate, on a particle whose position is set
evaluate(p, objective_function) ==
    LET s == Num(Objective(objective_function, p.position)) IN
    IF p.problem_type = "max" /\ Gt(s, p.best_score)
    THEN [p EXCEPT !.score = s, !.best_score = s, !.best_position = p.position]
    ELSE IF p.problem_type = "min" /\ Lt(s, p.best_score)
    THEN [p EXCEPT !.score = s, !.best_score = s, !.best_position = p.position]
    ELSE [p EXCEPT !.score = s]

---------------------------------------------------------------------------
(* The mappings build_from_dict is given *)

ProblemTypes == {"min", "max"}

BuilderKeys ==
    {"problem_type", "num_particles", "bounds", "cognitive_weight", "social_weight",
     "inertia_weight", "objective_function", "max_iterations"}

\* the tests' mappings carry a key the builder does not know
DictKeys == BuilderKeys \cup {"dimensions"}

\* a mapping with the weights of demo_swarm (the inertia weight on the grid)
SwarmDict(pt, n, b, m) ==
    [key \in DictKeys |->
        CASE key = "problem_type" -> pt
          [] key = "num_particles" -> n
          [] key = "bounds" -> b
          [] key = "cognitive_weight" -> 2
          [] key = "social_weight" -> 2
          [] key = "inertia_weight" -> 1
          [] key = "objective_function" -> "sphere"
          [] key = "max_iterations" -> m
          [] key = "dimensions" -> Len(b)]

\* two particles on a line, every iteration count and problem type
LineDicts ==
    { SwarmDict(pt, 2, << <<-1, MaxBound>> >>, m) :
        pt \in ProblemTypes, m \in 1..MaxIterations }

\* three particles, so that a ring and the global topology differ
ThreeParticleDicts ==
    { SwarmDict(pt, 3, << <<-1, 1>> >>, 2) : pt \in ProblemTypes }

\* two dimensions with different bounds
PlaneDicts ==
    { SwarmDict(pt, 2, << <<0, 1>>, <<-1, 1>> >>, 1) : pt \in ProblemTypes }

SwarmDicts == LineDicts \cup ThreeParticleDicts \cup PlaneDicts

\* swarm_dict with `key` given `value`, and swarm_dict without `key`
With(d, key, value) == [k \in DOMAIN d |-> IF k = key THEN value ELSE d[k]]
Without(d, key) == [k \in DOMAIN d \ {key} |-> d[k]]

\* a mapping every setter accepts
BaseDict == SwarmDict("min", 2, << <<0, 1>> >>, 1)

\* BaseDict with one value changed: the values each setter rejects, and values it
\* accepts
OneValueDicts ==
    {With(BaseDict, "problem_type", v) : v \in {"max", "median"}}
    \cup {With(BaseDict, "max_iterations", 0)}
    \cup {With(BaseDict, "objective_function", v) :
              v \in {"quadratic_1d", "quadratic_2d", "rastrigin", "cube"}}
    \cup {With(BaseDict, "num_particles", 1)}
    \cup {With(BaseDict, "bounds", v) :
              v \in {<<>>, << <<1, 0>> >>, << <<0>> >>, << <<1, 1>> >>}}
    \cup {With(BaseDict, "cognitive_weight", v) : v \in {-1, 0}}
    \cup {With(BaseDict, "social_weight", -1)}
    \cup {With(BaseDict, "inertia_weight", v) : v \in {-1, 0}}

\* quadratic_2d on two and on three dimensions
Quadratic2dDicts ==
    {With(With(BaseDict, "objective_function", "quadratic_2d"), "bounds", v) :
        v \in {<< <<0, 1>>, <<0, 1>> >>, << <<0, 1>>, <<0, 1>>, <<0, 1>> >>}}

\* BaseDict with one key left out
MissingKeyDicts == {Without(BaseDict, key) : key \in DictKeys}

AnyDicts == {BaseDict} \cup OneValueDicts \cup Quadratic2dDicts \cup MissingKeyDicts

---------------------------------------------------------------------------
(* pso/swarm/builder.py *)

Init ==
    /\ swarm_dict \in SwarmDicts
    /\ pending = DictKeys
    /\ swarm = NewSwarm
    /\ particles = <<>>
    /\ pc = "build_from_dict"
    /\ pipeline = <<>>
    /\ idx = 0
    /\ handed = "Swarm"
    /\ runner_swarm = "Swarm"
    /\ i = 0
    /\ pipeline_runs = 0
    /\ export_calls = <<>>
    /\ err = "none"
    /\ convergence = NoCalculator

\* build_from_dict given any of the mappings above
BuilderInit ==
    /\ swarm_dict \in AnyDicts
    /\ pending = DOMAIN swarm_dict
    /\ swarm = NewSwarm
    /\ particles = <<>>
    /\ pc = "build_from_dict"
    /\ pipeline = <<>>
    /\ idx = 0
    /\ handed = "Swarm"
    /\ runner_swarm = "Swarm"
    /\ i = 0
    /\ pipeline_runs = 0
    /\ export_calls = <<>>
    /\ err = "none"
    /\ convergence = NoCalculator

runner_vars == <<pipeline, idx, handed, runner_swarm, i, pipeline_runs, export_calls,
                 convergence>>

\* one turn of the loop of build_from_dict, at `key`
Turn(key) ==
    /\ pc = "build_from_dict"
    /\ key \in pending
    /\ pending' = pending \ {key}
    /\ UNCHANGED <<swarm_dict, runner_vars>>

\* a setter raised: the exception leaves build_from_dict
Raise(exception) ==
    /\ pc' = "failed"
    /\ err' = exception

Return == UNCHANGED <<pc, err>>

with_problem_type ==
    /\ Turn("problem_type")
    /\ LET problem_type == swarm_dict["problem_type"] IN
       IF problem_type \notin {"min", "max"}
       THEN Raise("ValueError") /\ UNCHANGED <<swarm, particles>>
       ELSE /\ swarm' = [swarm EXCEPT
                   !.problem_type = problem_type,
                   !.global_best_score = IF problem_type = "min" THEN Inf ELSE NegInf]
            /\ UNCHANGED particles
            /\ Return

with_max_iterations ==
    /\ Turn("max_iterations")
    /\ LET max_iterations == swarm_dict["max_iterations"] IN
       IF max_iterations < 1
       THEN Raise("ValueError") /\ UNCHANGED <<swarm, particles>>
       ELSE /\ swarm' = [swarm EXCEPT !.max_iterations = max_iterations]
            /\ UNCHANGED particles
            /\ Return

with_objective_function ==
    /\ Turn("objective_function")
    /\ LET objective_function == swarm_dict["objective_function"] IN
       IF objective_function \notin FitnessNames
       THEN Raise("AttributeError") /\ UNCHANGED <<swarm, particles>>
       ELSE /\ swarm' = [swarm EXCEPT !.objective_function = objective_function]
            /\ UNCHANGED particles
            /\ Return

\* one particle fewer than asked for
MakeOneFewer(num_particles, problem_type) ==
    [n \in 1..(num_particles - 1) |-> NewParticle(problem_type)]

\* the particles made for problem_type, as with_num_particles makes them
MakeParticles(num_particles, problem_type) ==
    [n \in 1..num_particles |-> NewParticle(problem_type)]

with_num_particles ==
    /\ Turn("num_particles")
    /\ LET num_particles == swarm_dict["num_particles"] IN
       IF num_particles < 2
       THEN Raise("ValueError") /\ UNCHANGED <<swarm, particles>>
       ELSE /\ swarm' = [swarm EXCEPT !.num_particles = num_particles]
            /\ particles' = MakeParticles(num_particles, swarm.problem_type)
            /\ Return

with_bounds ==
    /\ Turn("bounds")
    /\ LET bounds == swarm_dict["bounds"] IN
       IF \E d \in 1..Len(bounds) : Len(bounds[d]) # 2 \/ bounds[d][1] > bounds[d][2]
       THEN Raise("ValueError") /\ UNCHANGED <<swarm, particles>>
       ELSE IF bounds = <<>>
       \* zip(*[]) yields nothing to unpack, after self.swarm.bounds was assigned
       THEN /\ swarm' = [swarm EXCEPT !.bounds = List(bounds)]
            /\ UNCHANGED particles
            /\ Raise("ValueError")
       ELSE /\ swarm' = [swarm EXCEPT
                   !.bounds = List(bounds),
                   !.lower_bounds = [d \in 1..Len(bounds) |-> bounds[d][1]],
                   !.upper_bounds = [d \in 1..Len(bounds) |-> bounds[d][2]],
                   !.dimensions = Len(bounds)]
            /\ UNCHANGED particles
            /\ Return

with_cognitive_weight ==
    /\ Turn("cognitive_weight")
    /\ LET cognitive_weight == swarm_dict["cognitive_weight"] IN
       IF cognitive_weight < 0
       THEN Raise("ValueError") /\ UNCHANGED <<swarm, particles>>
       ELSE /\ swarm' = [swarm EXCEPT !.cognitive_weight = cognitive_weight]
            /\ UNCHANGED particles
            /\ Return

with_social_weight ==
    /\ Turn("social_weight")
    /\ LET social_weight == swarm_dict["social_weight"] IN
       IF social_weight < 0
       THEN Raise("ValueError") /\ UNCHANGED <<swarm, particles>>
       ELSE /\ swarm' = [swarm EXCEPT !.social_weight = social_weight]
            /\ UNCHANGED particles
            /\ Return

with_inertia_weight ==
    /\ Turn("inertia_weight")
    /\ LET inertia_weight == swarm_dict["inertia_weight"] IN
       IF inertia_weight < 0
       THEN Raise("ValueError") /\ UNCHANGED <<swarm, particles>>
       ELSE /\ swarm' = [swarm EXCEPT !.inertia_weight = inertia_weight]
            /\ UNCHANGED particles
            /\ Return

\* build_from_dict skips a key that names no builder method
SkipKey ==
    /\ \E key \in pending \ BuilderKeys : Turn(key)
    /\ UNCHANGED <<swarm, particles>>
    /\ Return

\* the check of build() with max_iterations left out of required_attributes
MissingAttributeButLast(s) ==
    IF s.problem_type = "None" THEN "problem_type"
    ELSE IF s.num_particles = NoneNum THEN "num_particles"
    ELSE IF s.bounds = NoneList THEN "bounds"
    ELSE IF s.cognitive_weight = NoneNum THEN "cognitive_weight"
    ELSE IF s.social_weight = NoneNum THEN "social_weight"
    ELSE IF s.inertia_weight = NoneNum THEN "inertia_weight"
    ELSE IF s.objective_function = "None" THEN "objective_function"
    ELSE "none"

\* the first required attribute of the swarm that is None, or "none"
MissingAttribute(s) ==
    IF s.problem_type = "None" THEN "problem_type"
    ELSE IF s.num_particles = NoneNum THEN "num_particles"
    ELSE IF s.bounds = NoneList THEN "bounds"
    ELSE IF s.cognitive_weight = NoneNum THEN "cognitive_weight"
    ELSE IF s.social_weight = NoneNum THEN "social_weight"
    ELSE IF s.inertia_weight = NoneNum THEN "inertia_weight"
    ELSE IF s.objective_function = "None" THEN "objective_function"
    ELSE IF s.max_iterations = NoneNum THEN "max_iterations"
    ELSE "none"

\* the message of the ValueError of build(), before the attribute's name
MissingProperty == "ValueError: Swarm is missing required property: "

\* build() stamps the swarm's problem_type on every particle and nothing else
Stamp(p, problem_type) == [p EXCEPT !.problem_type = problem_type]

build ==
    /\ pc = "build_from_dict"
    /\ pending = {}
    /\ particles' = [n \in 1..Len(particles) |-> Stamp(particles[n], swarm.problem_type)]
    /\ IF MissingAttribute(swarm) # "none"
       THEN Raise(MissingProperty \o MissingAttribute(swarm))
       ELSE pc' = "built" /\ err' = "none"
    /\ UNCHANGED <<swarm_dict, pending, swarm, runner_vars>>

---------------------------------------------------------------------------
(* pso/pipelines/pipeline.py: the standard pipelines *)

\* the global pipeline with the velocity update ahead of the two evaluators
VelocityFirstPipeline ==
    <<"InitialisePosition", "InitialiseVelocity", "InitialiseGlobalTopology",
      "UpdateVelocity", "ParticleEvaluator", "SwarmEvaluator", "UpdatePosition",
      "MongoDBExporter">>

StandardGlobalPSOPipeline ==
    <<"InitialisePosition", "InitialiseVelocity", "InitialiseGlobalTopology",
      "ParticleEvaluator", "SwarmEvaluator", "UpdateVelocity", "UpdatePosition",
      "MongoDBExporter">>

StandardRingPSOPipeline ==
    <<"InitialisePosition", "InitialiseVelocity", "InitialiseRingTopology",
      "ParticleEvaluator", "SwarmEvaluator", "UpdateVelocity", "UpdatePosition",
      "MongoDBExporter">>

\* pipeline.processors.pop(), as the tests do to leave the exporter out
Pop(processors) == SubSeq(processors, 1, Len(processors) - 1)

\* PSOPipeline.run reaches processor `name`: swarm = processor.process(swarm)
Process(name) ==
    /\ pc = "pipeline"
    /\ idx <= Len(pipeline)
    /\ pipeline[idx] = name
    /\ handed = "Swarm"
    /\ idx' = idx + 1
    /\ UNCHANGED <<swarm_dict, pending, pipeline, runner_swarm, i, pipeline_runs>>
    /\ name = "SwarmEvaluator" \/ UNCHANGED convergence

\* process returned the swarm it was given
Returned ==
    /\ UNCHANGED <<pc, err, handed, export_calls>>

\* process raised: the exception leaves PSOPipeline.run and PSORunner.run
Raised(exception) ==
    /\ pc' = "failed"
    /\ err' = exception
    /\ UNCHANGED <<handed, export_calls>>

N == Len(particles)
D == swarm.dimensions

\* a loop over the particles that raises at the first particle of `raisers` has
\* changed the particles before it: the index of that particle, N + 1 when none raises
FirstRaising(raisers) ==
    IF raisers = {} THEN N + 1
    ELSE CHOOSE n \in raisers : \A m \in raisers : n <= m

---------------------------------------------------------------------------
(* pso/processors/position.py, pso/processors/velocity.py *)

\* the grid
GridPoints == -MaxBound..MaxBound

\* the vectors np.random.uniform(lower, upper, dimensions) can give
UniformVectors(lower, upper) ==
    { v \in [1..Len(lower) -> GridPoints] :
        \A d \in 1..Len(lower) : v[d] \in Uniform(lower[d], upper[d]) }

\* the range InitialisePosition draws a position from
PositionDraws(lower, upper) == UniformVectors(lower, upper)

\* the range InitialiseVelocity draws a velocity from
VelocityDraws(dimensions) ==
    UniformVectors([d \in 1..dimensions |-> -1], [d \in 1..dimensions |-> 1])

\* the stage does its work whatever the flag says
Ungated(flag) == TRUE

\* the guard of an Initialise stage: its work is done only while the flag is false
Gate(flag) == ~flag

\* the stage leaves its flag as it was before the first call
Unflagged == FALSE

\* what an Initialise stage leaves in its flag
Flagged == TRUE

InitialisePosition ==
    /\ Process("InitialisePosition")
    /\ IF Gate(swarm.position_initialised)
       THEN \E draw \in [1..N -> PositionDraws(swarm.lower_bounds, swarm.upper_bounds)] :
              /\ particles' = [n \in 1..N |-> [particles[n] EXCEPT !.position = draw[n]]]
              /\ swarm' = [swarm EXCEPT !.position_initialised = Flagged]
       ELSE UNCHANGED <<swarm, particles>>
    /\ Returned

InitialiseVelocity ==
    /\ Process("InitialiseVelocity")
    /\ IF Gate(swarm.velocity_initialised)
       THEN \E draw \in [1..N -> VelocityDraws(D)] :
              /\ particles' = [n \in 1..N |-> [particles[n] EXCEPT !.velocity = draw[n]]]
              /\ swarm' = [swarm EXCEPT !.velocity_initialised = Flagged]
       ELSE UNCHANGED <<swarm, particles>>
    /\ Returned

\* position += velocity with the clip left out
MovedUnclipped(p, lower, upper) ==
    [d \in 1..Len(p.position) |-> p.position[d] + p.velocity[d]]

\* the addition of the velocity lost: the old position, clipped
ClippedUnmoved(p, lower, upper) == Clip(p.position, lower, upper)

\* position += velocity, then np.clip into the bounds
MovedPosition(p, lower, upper) ==
    Clip([d \in 1..Len(p.position) |-> p.position[d] + p.velocity[d]], lower, upper)

\* best_position not a copy but the array of position itself: the addition in place
\* reaches it, the clip, which makes a new array for position, does not
MoveAliasedBest(p, lower, upper) ==
    [p EXCEPT !.position = MovedPosition(p, lower, upper),
              !.best_position = [d \in 1..Len(p.position) |->
                                    p.position[d] + p.velocity[d]]]

\* the particle after the two statements of the loop: only its position is another.
\* best_position and the swarm's global_best_position are copies (.copy()) of earlier
\* positions, which the addition in place does not reach.
Move(p, lower, upper) == [p EXCEPT !.position = MovedPosition(p, lower, upper)]

PositionRaises(n) == particles[n].position = None \/ particles[n].velocity = None

UpdatePosition ==
    /\ Process("UpdatePosition")
    /\ LET raising == FirstRaising({n \in 1..N : PositionRaises(n)}) IN
       /\ particles' = [n \in 1..N |->
              IF n < raising
              THEN Move(particles[n], swarm.lower_bounds, swarm.upper_bounds)
              ELSE particles[n]]
       /\ UNCHANGED swarm
       /\ IF raising <= N THEN Raised("TypeError") ELSE Returned

\* the neighbour that comes last among those no other neighbour beats
RECURSIVE LastBestOf(_, _, _)
LastBestOf(neighbours, problem_type, best) ==
    IF neighbours = <<>> THEN best
    ELSE LET head == Head(neighbours)
             worse == IF problem_type = "max"
                      THEN Lt(particles[head].best_score, particles[best].best_score)
                      ELSE Gt(particles[head].best_score, particles[best].best_score)
         IN LastBestOf(Tail(neighbours), problem_type, IF worse THEN best ELSE head)

\* max(neighbours, key=best_score) / min(neighbours, key=best_score): the particle
\* (its index in the swarm) that comes first among those no other neighbour beats
RECURSIVE BestOf(_, _, _)
BestOf(neighbours, problem_type, best) ==
    IF neighbours = <<>> THEN best
    ELSE LET head == Head(neighbours)
             better == IF problem_type = "max"
                       THEN Gt(particles[head].best_score, particles[best].best_score)
                       ELSE Lt(particles[head].best_score, particles[best].best_score)
         IN BestOf(Tail(neighbours), problem_type, IF better THEN head ELSE best)

NeighbourBest(p, problem_type) ==
    BestOf(Tail(p.neighbours), problem_type, Head(p.neighbours))

\* the new velocity before the clip: inertia, cognitive and social terms
Accelerated(p, neighbour_best_position, inertia_weight, cognitive, social) ==
    [d \in 1..Len(p.velocity) |->
        inertia_weight * p.velocity[d]
        + cognitive[d] * (p.best_position[d] - p.position[d])
        + social[d] * (neighbour_best_position[d] - p.position[d])]

\* the velocity clipped into the range of the initial velocities, [-1, 1]
ClippedToUnit(v, lower, upper) ==
    Clip(v, [d \in 1..Len(v) |-> -1], [d \in 1..Len(v) |-> 1])

\* np.clip(particle.velocity, swarm.lower_bounds, swarm.upper_bounds)
ClippedVelocity(v, lower, upper) == Clip(v, lower, upper)

\* the products weight * np.random.random(dimensions)
Coefficients(weight) == [1..D -> Coefficient(weight)]

\* max() or min() of no neighbours
NoNeighbours(n) == particles[n].neighbours = <<>>

\* UpdateVelocity raises at particle n
VelocityRaises(n) ==
    \/ NoNeighbours(n)
    \/ particles[n].best_position = None
    \/ particles[n].position = None
    \/ particles[n].velocity = None
    \/ particles[NeighbourBest(particles[n], swarm.problem_type)].best_position = None

UpdateVelocity ==
    /\ Process("UpdateVelocity")
    /\ LET raising == FirstRaising({n \in 1..N : VelocityRaises(n)}) IN
       /\ \E cognitive \in [1..(raising - 1) -> Coefficients(swarm.cognitive_weight)],
             social \in [1..(raising - 1) -> Coefficients(swarm.social_weight)] :
            particles' = [n \in 1..N |->
                IF n < raising
                THEN [particles[n] EXCEPT
                        !.velocity = ClippedVelocity(
                            Accelerated(particles[n],
                                particles[NeighbourBest(particles[n],
                                                        swarm.problem_type)].best_position,
                                swarm.inertia_weight, cognitive[n], social[n]),
                            swarm.lower_bounds, swarm.upper_bounds)]
                ELSE particles[n]]
       /\ UNCHANGED swarm
       /\ IF raising <= N
          THEN Raised(IF NoNeighbours(raising) THEN "ValueError" ELSE "TypeError")
          ELSE Returned

---------------------------------------------------------------------------
(* pso/topology/topology.py, pso/processors/topology.py *)

\* Python's list[index] for -len <= index < len, as an index from 0
PyIndex(index, len) == IF index < 0 THEN index + len ELSE index

\* every particle, the current one included
GlobalIncludingSelf(count, current_particle_index) == [k \in 1..count |-> k]

\* The particles are numbered from 1 here and from 0 in the code.
GlobalTopology_assign_neighbours(count, current_particle_index) ==
    LET others == { m \in 0..(count - 1) : m # current_particle_index }
        Nth[k \in 0..count] ==
            IF k = 0 THEN <<>>
            ELSE IF (k - 1) \in others THEN Append(Nth[k - 1], k) ELSE Nth[k - 1]
    IN Nth[count]

\* the two adjacent indices held inside the list instead of wrapped around
RingClamped(count, current_particle_index) ==
    << Max2(current_particle_index - 1, 0) + 1,
       Min2(current_particle_index + 1, count - 1) + 1 >>

RingTopology_assign_neighbours(count, current_particle_index) ==
    << PyIndex(current_particle_index - 1, count) + 1,
       ((current_particle_index + 1) % count) + 1 >>

InitialiseGlobalTopology ==
    /\ Process("InitialiseGlobalTopology")
    /\ IF Gate(swarm.topology_initialised)
       THEN /\ particles' = [n \in 1..N |-> [particles[n] EXCEPT
                   !.neighbours = GlobalTopology_assign_neighbours(N, n - 1)]]
            /\ swarm' = [swarm EXCEPT !.topology_initialised = Flagged]
       ELSE UNCHANGED <<swarm, particles>>
    /\ Returned

InitialiseRingTopology ==
    /\ Process("InitialiseRingTopology")
    /\ IF Gate(swarm.topology_initialised)
       THEN /\ particles' = [n \in 1..N |-> [particles[n] EXCEPT
                   !.neighbours = RingTopology_assign_neighbours(N, n - 1)]]
            /\ swarm' = [swarm EXCEPT !.topology_initialised = Flagged]
       ELSE UNCHANGED <<swarm, particles>>
    /\ Returned

---------------------------------------------------------------------------
(* pso/fitness/convergence.py *)

\* the lookup table short of its last entry
OPTIMAL_VALUES_but_rastrigin == {"sphere", "quadratic_1d", "quadratic_2d"}

OPTIMAL_VALUES == {"sphere", "quadratic_1d", "quadratic_2d", "rastrigin"}

\* len(optimal_position)
OptimalDimensions(function_name, dimensions) ==
    CASE function_name = "quadratic_1d" -> 1
      [] function_name = "quadratic_2d" -> 2
      [] OTHER -> dimensions

optimal_score == 0

\* ConvergenceCalculator.__init__ past its check of function_name: the fields of the object
ConvergenceCalculator(function_name, dimensions) ==
    [function_name |-> function_name, dimensions |-> dimensions,
     optimal_position |-> [d \in 1..OptimalDimensions(function_name, dimensions) |-> 0],
     optimal_score |-> optimal_score]

precision_score(best_score) ==
    IF best_score.k = "num" THEN Num(Abs(best_score.v - optimal_score)) ELSE Inf

\* best_position - optimal_position broadcasts unless the lengths differ and neither is 1
Broadcasts(len, optimal_len) == len = optimal_len \/ len = 1 \/ optimal_len = 1

\* np.linalg.norm(best_position - zeros), rounded down to the grid
precision_position(best_position, optimal_len) ==
    Num(ISqrt((IF Len(best_position) = 1 THEN optimal_len ELSE 1) * sphere(best_position)))

\* the default tolerance, 1e-6: on the grid |x| <= 1e-6 exactly when |x| <= 0
tolerance == 0

\* ConvergenceCalculator.check_convergence
check_convergence(best_score) ==
    best_score.k = "num" /\ Abs(best_score.v - optimal_score) <= tolerance

\* ConvergenceCalculator.convergence_rate, rounded down to the grid
convergence_rate(convergence_iteration, max_iterations) ==
    (convergence_iteration * 100) \div max_iterations

---------------------------------------------------------------------------
(* pso/processors/evaluation.py *)

EvaluateRaises(n) == ObjectiveRaises(swarm.objective_function, particles[n].position)

ParticleEvaluator ==
    /\ Process("ParticleEvaluator")
    /\ LET raising == FirstRaising({n \in 1..N : EvaluateRaises(n)}) IN
       /\ particles' = [n \in 1..N |->
              IF n < raising
              THEN evaluate(particles[n], swarm.objective_function)
              ELSE particles[n]]
       /\ UNCHANGED swarm
       /\ IF raising <= N
          THEN Raised(IF particles[raising].position = None
                      THEN "TypeError" ELSE "IndexError")
          ELSE Returned

\* the scan adopting every score: the last particle's score wins
AdoptsAlways(problem_type, score, best_score) == TRUE

\* the scan adopting a score equal to the running best as well
AdoptsOnTies(problem_type, score, best_score) ==
    \/ problem_type = "max" /\ ~Lt(score, best_score)
    \/ problem_type = "min" /\ ~Gt(score, best_score)

\* whether the scan of SwarmEvaluator adopts `score` over the running `best_score`
Adopts(problem_type, score, best_score) ==
    \/ problem_type = "max" /\ (best_score = NegInf \/ Gt(score, best_score))
    \/ problem_type = "min" /\ (best_score = Inf \/ Lt(score, best_score))

\* the scan: <<best_score, best_position>> after the first n particles
RECURSIVE Scan(_)
Scan(n) ==
    IF n = 0 THEN <<swarm.global_best_score, swarm.global_best_position>>
    ELSE LET best == Scan(n - 1) IN
         IF Adopts(swarm.problem_type, particles[n].score, best[1])
         THEN <<particles[n].score, particles[n].position>>
         ELSE best

\* a comparison with a score that is None
ScanRaises == \E n \in 1..N : particles[n].score = NoneScore

SwarmEvaluator ==
    /\ Process("SwarmEvaluator")
    /\ IF ScanRaises
       THEN UNCHANGED <<swarm, particles, convergence>> /\ Raised("TypeError")
       ELSE LET best == Scan(N)
                name == swarm.objective_function
                scanned == [swarm EXCEPT !.global_best_score = best[1],
                                         !.global_best_position = best[2]]
                scored == [scanned EXCEPT
                    !.score_precision = Append(@, precision_score(best[1]))]
            IN /\ UNCHANGED particles
               /\ convergence' = IF name \in OPTIMAL_VALUES
                                 THEN ConvergenceCalculator(name, swarm.dimensions)
                                 ELSE convergence
               /\ IF name \notin OPTIMAL_VALUES
                  THEN swarm' = scanned /\ Raised("ValueError")
                  ELSE IF ~Broadcasts(Len(best[2]), OptimalDimensions(name, D))
                  THEN swarm' = scored /\ Raised("ValueError")
                  ELSE /\ swarm' = [scored EXCEPT
                              !.position_precision = Append(@,
                                  precision_position(best[2], OptimalDimensions(name, D)))]
                       /\ Returned

---------------------------------------------------------------------------
(* pso/processors/export.py *)

\* What the call processor.process(swarm) gives PSOPipeline.run.  process is declared
\* `async def` and PSOPipeline.run does not await it: the call makes a coroutine
\* object and runs none of the body.
ExporterResult == "coroutine"

MongoDBExporter ==
    /\ Process("MongoDBExporter")
    /\ handed' = ExporterResult
    /\ export_calls' = Append(export_calls, swarm.current_iteration)
    /\ UNCHANGED <<swarm, particles, pc, err>>

---------------------------------------------------------------------------
(* pso/pipelines/runner.py *)

Pipelines ==
    { StandardGlobalPSOPipeline, StandardRingPSOPipeline,
      Pop(StandardGlobalPSOPipeline), Pop(StandardRingPSOPipeline) }

\* PSORunner(pipeline, swarm).run() up to the first call of pipeline.run
RunnerRun ==
    /\ pc = "built"
    /\ pipeline' \in Pipelines
    /\ runner_swarm' = "Swarm"
    /\ i' = 0
    /\ pipeline_runs' = 1
    /\ idx' = 1
    /\ handed' = "Swarm"
    /\ pc' = "pipeline"
    /\ UNCHANGED <<swarm_dict, pending, swarm, particles, export_calls, err, convergence>>

\* the counter advanced a second time in the same pass
IncrementedTwice(current_iteration) == current_iteration + 2

\* self.swarm.current_iteration += 1
Incremented(current_iteration) == current_iteration + 1

\* pipeline.run returns: self.swarm = <its result>; self.swarm.current_iteration += 1;
\* then the next turn of the loop, or the return of self.swarm
RunnerStep ==
    /\ pc = "pipeline"
    /\ idx = Len(pipeline) + 1
    /\ runner_swarm' = handed
    /\ IF handed # "Swarm"
       THEN /\ pc' = "failed"
            /\ err' = "AttributeError"
            /\ UNCHANGED <<swarm, i, pipeline_runs, idx, handed>>
       ELSE /\ swarm' = [swarm EXCEPT !.current_iteration = Incremented(@)]
            /\ err' = err
            /\ IF i + 1 < swarm.max_iterations
               THEN /\ i' = i + 1
                    /\ pipeline_runs' = pipeline_runs + 1
                    /\ idx' = 1
                    /\ handed' = "Swarm"
                    /\ pc' = "pipeline"
               ELSE /\ pc' = "done"
                    /\ UNCHANGED <<i, pipeline_runs, idx, handed>>
    /\ UNCHANGED <<swarm_dict, pending, particles, pipeline, export_calls, convergence>>

---------------------------------------------------------------------------

Next ==
    \/ with_problem_type
    \/ with_max_iterations
    \/ with_objective_function
    \/ with_num_particles
    \/ with_bounds
    \/ with_cognitive_weight
    \/ with_social_weight
    \/ with_inertia_weight
    \/ SkipKey
    \/ build
    \/ RunnerRun
    \/ InitialisePosition
    \/ InitialiseVelocity
    \/ InitialiseGlobalTopology
    \/ InitialiseRingTopology
    \/ ParticleEvaluator
    \/ SwarmEvaluator
    \/ UpdateVelocity
    \/ UpdatePosition
    \/ MongoDBExporter
    \/ RunnerStep

Spec == Init /\ [][Next]_vars

\* the builder on any mapping, and the runs of the swarms it returns
BuilderSpec == BuilderInit /\ [][Next]_vars

---------------------------------------------------------------------------
(* pso/topology/topology.py on its own: a topology over a list of new particles,
   assign_neighbours called for one index after another, in any order, as
   tests/test_topology.py does *)

TopologyInit ==
    /\ particles \in {MakeParticles(n, "min") : n \in 2..MaxParticles}
    /\ pipeline \in {<<"InitialiseGlobalTopology">>, <<"InitialiseRingTopology">>}
    /\ pc = "topology"
    /\ idx = 0
    /\ swarm_dict = BaseDict
    /\ pending = {}
    /\ swarm = NewSwarm
    /\ handed = "Swarm"
    /\ runner_swarm = "Swarm"
    /\ i = 0
    /\ pipeline_runs = 0
    /\ export_calls = <<>>
    /\ err = "none"
    /\ convergence = NoCalculator

\* particle.neighbours = topology.assign_neighbours(n - 1), on a particle not yet
\* given its neighbours
Assign(name, n, neighbours) ==
    /\ pc = "topology"
    /\ pipeline[1] = name
    /\ particles[n].neighbours = <<>>
    /\ particles' = [particles EXCEPT ![n].neighbours = neighbours]
    /\ idx' = n
    /\ UNCHANGED <<swarm_dict, pending, swarm, pc, pipeline, handed, runner_swarm, i,
                   pipeline_runs, export_calls, err, convergence>>

AssignGlobal ==
    \E n \in 1..N :
        Assign("InitialiseGlobalTopology", n, GlobalTopology_assign_neighbours(N, n - 1))

AssignRing ==
    \E n \in 1..N :
        Assign("InitialiseRingTopology", n, RingTopology_assign_neighbours(N, n - 1))

TopologyNext == AssignGlobal \/ AssignRing

TopologySpec == TopologyInit /\ [][TopologyNext]_vars

---------------------------------------------------------------------------
(* The two evaluators on a swarm put together by hand, as the tests of        *)
(* tests/test_particles.py and tests/test_processors.py do: Particle(...),    *)
(* particle.position = ..., particle.score = ..., swarm.global_best_score = ... *)

\* number of particles of such a swarm
MaxScanned == 3

\* an objective function that ConvergenceCalculator has no optimum for
UnknownName == "invalid"

\* the pairs of objective function and swarm.dimensions
EvaluatorFunctions ==
    {<<"sphere", 1>>, <<"sphere", 2>>, <<"quadratic_1d", 1>>, <<"quadratic_2d", 2>>,
     <<"rastrigin", 1>>}

\* the positions given to the particles
EvaluatorPositions(dimensions) ==
    IF dimensions = 1 THEN {<<-1>>, <<0>>, <<1>>} ELSE {<<0, 0>>, <<1, 0>>, <<0, 1>>}

\* where an earlier evaluation left a best: nowhere yet (None), or one of these
EarlierBests(dimensions) ==
    IF dimensions = 1 THEN {None, <<0>>, <<1>>} ELSE {None, <<0, 0>>, <<1, 0>>}

\* Particle(problem_type), given its position, after an evaluation at best_position
\* if there was one
PlacedParticle(problem_type, name, position, best_position) ==
    IF best_position = None
    THEN [NewParticle(problem_type) EXCEPT !.position = position]
    ELSE [NewParticle(problem_type) EXCEPT
              !.position = position,
              !.best_position = best_position,
              !.best_score = Num(Objective(name, best_position)),
              !.score = Num(Objective(name, best_position))]

\* Particle(problem_type) with particle.position and particle.score assigned
ScoredParticle(problem_type, position, score) ==
    [NewParticle(problem_type) EXCEPT !.position = position, !.score = Num(score)]

\* the swarm of the harness: the seed of with_problem_type for the global best, or the
\* global best an earlier pass left at best_position with score best_score
EvaluatorSwarm(problem_type, name, dimensions, best_position, best_score) ==
    [NewSwarm EXCEPT
        !.problem_type = problem_type,
        !.objective_function = name,
        !.dimensions = dimensions,
        !.num_particles = MaxScanned,
        !.max_iterations = 1,
        !.global_best_position = best_position,
        !.global_best_score =
            IF best_position = None
            THEN (IF problem_type = "min" THEN Inf ELSE NegInf)
            ELSE Num(best_score)]

EvaluatorInit ==
    /\ \/ \E problem_type \in ProblemTypes, f \in EvaluatorFunctions :
           \E positions \in [1..MaxScanned -> EvaluatorPositions(f[2])],
              bests \in [1..MaxScanned -> EarlierBests(f[2])],
              best_position \in EarlierBests(f[2]) :
              /\ pipeline = <<"ParticleEvaluator", "SwarmEvaluator">>
              /\ particles = [n \in 1..MaxScanned |->
                     PlacedParticle(problem_type, f[1], positions[n], bests[n])]
              /\ swarm = EvaluatorSwarm(problem_type, f[1], f[2], best_position,
                     IF best_position = None THEN 0 ELSE Objective(f[1], best_position))
       \/ \E problem_type \in ProblemTypes, scores \in [1..MaxScanned -> 0..1],
             best_position \in {None, <<0>>}, best_score \in 0..1 :
              /\ pipeline = <<"SwarmEvaluator">>
              /\ particles = [n \in 1..MaxScanned |->
                     ScoredParticle(problem_type, <<n>>, scores[n])]
              /\ swarm = EvaluatorSwarm(problem_type, UnknownName, 1, best_position,
                     best_score)
    /\ pc = "pipeline"
    /\ idx = 1
    /\ swarm_dict = BaseDict
    /\ pending = {}
    /\ handed = "Swarm"
    /\ runner_swarm = "Swarm"
    /\ i = 0
    /\ pipeline_runs = 0
    /\ export_calls = <<>>
    /\ err = "none"
    /\ convergence = NoCalculator

EvaluatorNext == ParticleEvaluator \/ SwarmEvaluator

EvaluatorSpec == EvaluatorInit /\ [][EvaluatorNext]_vars

---------------------------------------------------------------------------
(* UpdateVelocity and UpdatePosition on a swarm in the middle of a run: every   *)
(* particle evaluated at its position, with a best from this or an earlier     *)
(* pass, the neighbours assigned by either topology.                           *)

\* where the particles are, how fast, and where their bests were found
MoverPositions == {<<0>>, <<1>>}
MoverVelocities == {<<-1>>, <<0>>}
MoverBests == {<<-1>>, <<0>>, <<1>>}

\* a particle the evaluators have been over: its score is that of its position, its
\* best is at least as good
MovingParticle(problem_type, position, velocity, best_position, neighbours) ==
    [NewParticle(problem_type) EXCEPT
        !.position = position,
        !.velocity = velocity,
        !.score = Num(sphere(position)),
        !.best_position = best_position,
        !.best_score = Num(sphere(best_position)),
        !.neighbours = neighbours]

\* the swarm of such particles: the global best is the best of the particles' bests
MoverSwarm(problem_type, best_position) ==
    [NewSwarm EXCEPT
        !.problem_type = problem_type,
        !.objective_function = "sphere",
        !.num_particles = MaxScanned,
        !.max_iterations = 1,
        !.dimensions = 1,
        !.bounds = List(<< <<-MaxBound, MaxBound>> >>),
        !.lower_bounds = <<-MaxBound>>,
        !.upper_bounds = <<MaxBound>>,
        !.cognitive_weight = 1,
        !.social_weight = 2,
        !.inertia_weight = 1,
        !.position_initialised = TRUE,
        !.velocity_initialised = TRUE,
        !.topology_initialised = TRUE,
        !.global_best_position = best_position,
        !.global_best_score = Num(sphere(best_position)),
        !.score_precision = <<Num(sphere(best_position))>>,
        !.position_precision = <<Num(ISqrt(sphere(best_position)))>>]

MoverInit ==
    /\ \E problem_type \in ProblemTypes, ring \in BOOLEAN,
          positions \in [1..MaxScanned -> MoverPositions],
          velocities \in [1..MaxScanned -> MoverVelocities],
          bests \in [1..MaxScanned -> MoverBests],
          best \in 1..MaxScanned :
          /\ \A n \in 1..MaxScanned :
                /\ IF problem_type = "max"
                   THEN sphere(bests[n]) >= sphere(positions[n])
                   ELSE sphere(bests[n]) <= sphere(positions[n])
                /\ IF problem_type = "max"
                   THEN sphere(bests[best]) >= sphere(bests[n])
                   ELSE sphere(bests[best]) <= sphere(bests[n])
          /\ particles = [n \in 1..MaxScanned |->
                 MovingParticle(problem_type, positions[n], velocities[n], bests[n],
                     IF ring
                     THEN RingTopology_assign_neighbours(MaxScanned, n - 1)
                     ELSE GlobalTopology_assign_neighbours(MaxScanned, n - 1))]
          /\ swarm = MoverSwarm(problem_type, bests[best])
    /\ pipeline = <<"UpdateVelocity", "UpdatePosition">>
    /\ pc = "pipeline"
    /\ idx = 1
    /\ swarm_dict = BaseDict
    /\ pending = {}
    /\ handed = "Swarm"
    /\ runner_swarm = "Swarm"
    /\ i = 0
    /\ pipeline_runs = 0
    /\ export_calls = <<>>
    /\ err = "none"
    /\ convergence = NoCalculator

MoverNext == UpdateVelocity \/ UpdatePosition

MoverSpec == MoverInit /\ [][MoverNext]_vars

---------------------------------------------------------------------------
(* Properties *)

\* PSORunner.run has been called
Started == pipeline_runs >= 1

\* PSORunner.run has ended, by a return or by an exception
Ended == Started /\ pc \in {"done", "failed"}

\* PSOPipeline.run is about to call processor `name`
Calling(name) == pc = "pipeline" /\ idx <= Len(pipeline) /\ pipeline[idx] = name

HasExporter == Started /\ pipeline[Len(pipeline)] = "MongoDBExporter"

\* C1: for a swarm the builder returned with max_iterations = M, PSORunner.run
\* calls the pipeline's run exactly M times, adds 1 to current_iteration after each
\* pass, and ends by returning a Swarm whose current_iteration is M.
C1_RunMakesMaxIterationsPasses ==
    /\ Started /\ pc = "pipeline" =>
          /\ pipeline_runs = swarm.current_iteration + 1
          /\ pipeline_runs <= swarm.max_iterations
    /\ Ended =>
          /\ pc = "done"
          /\ runner_swarm = "Swarm"
          /\ pipeline_runs = swarm.max_iterations
          /\ swarm.current_iteration = swarm.max_iterations

\* C2: with the Export stage in the pipeline, the stage is called once per
\* iteration, with the iteration indices 0, 1, ..., max_iterations - 1 in order, and
\* what the pipeline hands back after it is the Swarm that entered it, on which the
\* Runner increments the counter and runs the next iteration.
C2_ExportHandsBackTheSwarm ==
    HasExporter =>
        /\ \A k \in 1..Len(export_calls) : export_calls[k] = k - 1
        /\ handed = "Swarm"
        /\ runner_swarm = "Swarm"
        /\ pc = "done" => Len(export_calls) = swarm.max_iterations

\* C3: during a run 0 <= current_iteration <= max_iterations; the counter starts at
\* 0, never decreases, is changed by the Runner alone (by no Stage), and equals
\* max_iterations exactly when the run is Done.
C3_CounterStep ==
    /\ swarm'.current_iteration >= swarm.current_iteration
    /\ swarm'.current_iteration # swarm.current_iteration =>
          /\ pc = "pipeline"
          /\ idx = Len(pipeline) + 1

C3_IterationCounter ==
    /\ [](~Started => swarm.current_iteration = 0)
    /\ [](Started =>
            /\ 0 <= swarm.current_iteration
            /\ swarm.current_iteration <= swarm.max_iterations
            /\ (swarm.current_iteration = swarm.max_iterations <=> pc = "done"))
    /\ [][C3_CounterStep]_vars

\* a run of two iterations that is Done
C3_Witness ==
    /\ pc = "done"
    /\ swarm.max_iterations = 2
    /\ swarm.current_iteration = 2
    /\ pipeline_runs = 2

\* the three Initialise stages with their flags
InitialiseStages ==
    { <<"InitialisePosition", "position_initialised">>,
      <<"InitialiseVelocity", "velocity_initialised">>,
      <<"InitialiseGlobalTopology", "topology_initialised">>,
      <<"InitialiseRingTopology", "topology_initialised">> }

\* C4: a call of InitialisePosition, InitialiseVelocity, InitialiseGlobalTopology or
\* InitialiseRingTopology on a swarm whose flag is already true changes no
\* particle's position, velocity or neighbours and leaves the flag true.
C4_CallOnInitialisedSwarm ==
    \A stage \in InitialiseStages :
        Calling(stage[1]) /\ swarm[stage[2]] =>
            /\ particles' = particles
            /\ swarm' = swarm

C4_IdempotentInitialisation == [][C4_CallOnInitialisedSwarm]_vars

\* the second iteration is past its three Initialise stages
C4_Witness ==
    /\ pc = "pipeline"
    /\ i = 1
    /\ idx = 4
    /\ swarm.position_initialised /\ swarm.velocity_initialised
    /\ swarm.topology_initialised

\* C5: each of the three flags goes from false to true at most once, in its own
\* Initialise stage, and never back; so only the first iteration of a run draws
\* positions, draws velocities and assigns neighbours.
C5_FlagStep ==
    /\ \A stage \in InitialiseStages :
          /\ swarm[stage[2]] => swarm'[stage[2]]
          /\ Calling(stage[1]) /\ i > 0 => particles' = particles
    /\ swarm'.position_initialised # swarm.position_initialised =>
          Calling("InitialisePosition") /\ i = 0
    /\ swarm'.velocity_initialised # swarm.velocity_initialised =>
          Calling("InitialiseVelocity") /\ i = 0
    /\ swarm'.topology_initialised # swarm.topology_initialised =>
          /\ Calling("InitialiseGlobalTopology") \/ Calling("InitialiseRingTopology")
          /\ i = 0
    /\ (\E n \in 1..N : particles'[n].neighbours # particles[n].neighbours) =>
          pc = "build_from_dict" \/ i = 0

C5_OneShotFlags == [][C5_FlagStep]_vars

\* the flags are still true when the second iteration ends
C5_Witness ==
    /\ pc = "done"
    /\ swarm.current_iteration = 2
    /\ swarm.position_initialised /\ swarm.velocity_initialised
    /\ swarm.topology_initialised

WithinBounds(v) ==
    \A d \in 1..Len(v) : swarm.lower_bounds[d] <= v[d] /\ v[d] <= swarm.upper_bounds[d]

\* C6: once the positions are initialised, every particle's position lies in
\* [lower_bounds[d], upper_bounds[d]] in every dimension d: after InitialisePosition
\* and after every UpdatePosition.
C6_PositionsWithinBounds ==
    swarm.position_initialised =>
        \A n \in 1..N : particles[n].position # None /\ WithinBounds(particles[n].position)

\* In the first iteration best_position is the position drawn, so a position that
\* is not best_position + velocity after UpdatePosition was clipped.
C6_Witness ==
    /\ pc = "pipeline" /\ i = 0 /\ idx = 8
    /\ \E n \in 1..N :
          /\ particles[n].best_position # None
          /\ \E d \in 1..D :
                particles[n].position[d] #
                    particles[n].best_position[d] + particles[n].velocity[d]
          /\ WithinBounds(particles[n].position)

\* UpdateVelocity has returned at least once
VelocityUpdated ==
    \/ pc \in {"pipeline", "done"} /\ (i >= 1 \/ idx >= 7)
    \/ pc = "failed" /\ err = "AttributeError"

\* C7: after every UpdateVelocity every particle's velocity lies in
\* [lower_bounds[d], upper_bounds[d]] in every dimension d: the new velocity is
\* clipped into the position bounds, not into [-1, 1].
C7_VelocitiesWithinPositionBounds ==
    Started /\ VelocityUpdated =>
        \A n \in 1..N : WithinBounds(particles[n].velocity)

\* an updated velocity outside [-1, 1]
C7_Witness ==
    /\ Started /\ VelocityUpdated
    /\ \E n \in 1..N : \E d \in 1..D : particles[n].velocity[d] > 1

\* a is at least as good as b under the ordering of problem_type
AtLeastAsGood(problem_type, a, b) ==
    IF problem_type = "max" THEN ~Lt(a, b) ELSE ~Gt(a, b)

\* C8: across the ParticleEvaluator calls of a run, with the positions changing
\* between them, no particle's best_score gets worse: it does not increase when
\* minimising and does not decrease when maximising.
C8_BestScoreStep ==
    Started =>
        \A n \in 1..N :
            AtLeastAsGood(swarm.problem_type, particles'[n].best_score,
                          particles[n].best_score)

C8_BestScoreMonotone == [][C8_BestScoreStep]_vars

\* the second evaluation found a score worse than the best, which was kept
C8_Witness ==
    /\ pc = "pipeline" /\ i = 1 /\ idx = 5
    /\ \E n \in 1..N :
          /\ particles[n].best_score.k = "num"
          /\ particles[n].score # particles[n].best_score
          /\ AtLeastAsGood(swarm.problem_type, particles[n].best_score,
                           particles[n].score)

\* the best_score Particle.__init__ seeds for problem_type
SeededBest(problem_type) == IF problem_type = "min" THEN Inf ELSE NegInf

\* C9: for every particle of a swarm the builder produced, once it has been
\* evaluated, best_score is at least as good as score under the particle's
\* problem_type, and best_position is defined and is the position whose evaluation
\* gave best_score.
C9_BestIsAtLeastScore ==
    Started =>
        \A n \in 1..N :
            particles[n].score # NoneScore =>
                /\ AtLeastAsGood(particles[n].problem_type, particles[n].best_score,
                                 particles[n].score)
                /\ particles[n].best_position # None
                /\ particles[n].best_score =
                      Num(Objective(swarm.objective_function, particles[n].best_position))

\* C10: whatever the order of the keys, build_from_dict returns a swarm whose
\* particles all carry the swarm's problem_type and a best_score seeded to +infinity
\* for min and -infinity for max, so that each particle's first evaluation improves
\* its best.
C10_SeedIndependentOfKeyOrder ==
    /\ pc = "built" =>
          \A n \in 1..N :
              /\ particles[n].problem_type = swarm.problem_type
              /\ particles[n].best_score = SeededBest(swarm.problem_type)
    /\ pc = "pipeline" /\ i = 0 /\ idx = 5 =>
          \A n \in 1..N : particles[n].best_score = particles[n].score

\* C11: across SwarmEvaluator calls global_best_score never regresses under the
\* swarm's ordering: no step of a run makes it larger when minimising or smaller
\* when maximising.
C11_GlobalBestStep ==
    Started =>
        AtLeastAsGood(swarm.problem_type, swarm'.global_best_score,
                      swarm.global_best_score)

C11_GlobalBestMonotone == [][C11_GlobalBestStep]_vars

\* SwarmEvaluator was called a second time, on a particle whose score is worse than
\* the global best it leaves
C11_Witness ==
    /\ pc = "pipeline" /\ i = 1 /\ idx = 6
    /\ swarm.global_best_score.k = "num"
    /\ \E n \in 1..N :
          /\ particles[n].score # swarm.global_best_score
          /\ AtLeastAsGood(swarm.problem_type, swarm.global_best_score,
                           particles[n].score)

\* SwarmEvaluator has been called at least once on the swarm
Evaluated == Started /\ Len(swarm.score_precision) >= 1

\* C12: once SwarmEvaluator has been called and left a global_best_score within
\* the tolerance of the optimal score, the swarm is converged, with
\* convergence_iteration set to an iteration of the run and convergence_rate
\* 100 * convergence_iteration / max_iterations.
C12_ConvergenceFires ==
    Evaluated /\ check_convergence(swarm.global_best_score) =>
        /\ swarm.converged
        /\ swarm.convergence_iteration # NoneNum
        /\ swarm.convergence_iteration <= swarm.current_iteration
        /\ swarm.convergence_rate =
              convergence_rate(swarm.convergence_iteration, swarm.max_iterations)

\* the SwarmEvaluator calls (counted from 1) that left a global best within the
\* tolerance: score_precision keeps |global_best_score - optimal_score| of each call
ConvergingCalls ==
    {k \in 1..Len(swarm.score_precision) :
        check_convergence(swarm.score_precision[k])}

\* the iteration of the first converging call (the k-th call is made in iteration k - 1)
FirstConvergingIteration ==
    (CHOOSE k \in ConvergingCalls : \A l \in ConvergingCalls : k <= l) - 1

EvaluatorCalls ==
    IF pc = "pipeline" /\ idx > 5 THEN i + 1 ELSE swarm.current_iteration

\* C14: score_precision and position_precision always have the same length, and
\* each holds one value for every SwarmEvaluator call made: k values after k
\* completed iterations.
C14_PrecisionsGrowTogether ==
    /\ Len(swarm.score_precision) = Len(swarm.position_precision)
    /\ Started /\ pc \in {"pipeline", "done"} =>
          Len(swarm.score_precision) = EvaluatorCalls

\* the particles assign_neighbours has been called for
Assigned == {n \in 1..N : particles[n].neighbours # <<>>}

\* C15: GlobalTopology.assign_neighbours(i) returns every particle except the one
\* at i, in the order of the list: N - 1 neighbours, the particle never among them.
C15_GlobalNeighbours ==
    pc = "topology" /\ pipeline[1] = "InitialiseGlobalTopology" =>
        \A n \in Assigned :
            LET neighbours == particles[n].neighbours IN
            /\ Len(neighbours) = N - 1
            /\ {neighbours[k] : k \in 1..Len(neighbours)} = (1..N) \ {n}
            /\ \A k \in 1..(Len(neighbours) - 1) : neighbours[k] < neighbours[k + 1]

\* every particle of a list of three or more has been given its neighbours
C15_Witness ==
    /\ pc = "topology" /\ pipeline[1] = "InitialiseGlobalTopology"
    /\ N >= 3 /\ Assigned = 1..N

\* C16: RingTopology.assign_neighbours(i) returns exactly the particle before i and
\* the particle after i, in that order, the first preceded by the last and the last
\* followed by the first; with three or more particles the particle is not its own
\* neighbour, with two both entries are the other particle.
C16_RingNeighbours ==
    pc = "topology" /\ pipeline[1] = "InitialiseRingTopology" =>
        \A n \in Assigned :
            LET neighbours == particles[n].neighbours IN
            /\ neighbours = << IF n = 1 THEN N ELSE n - 1, IF n = N THEN 1 ELSE n + 1 >>
            /\ N >= 3 => neighbours[1] # n /\ neighbours[2] # n
            /\ N = 2 => neighbours = << 3 - n, 3 - n >>

\* the first and the last particle of a list of three or more have been given
\* their neighbours: both wraparounds happened
C16_Witness ==
    /\ pc = "topology" /\ pipeline[1] = "InitialiseRingTopology"
    /\ {1, N} \subseteq Assigned
    /\ idx = N /\ N >= 3

\* the values the setter of `key` is to reject
Invalid(key, value) ==
    CASE key = "problem_type" -> value \notin {"min", "max"}
      [] key = "max_iterations" -> value < 1
      [] key = "objective_function" -> value \notin FitnessNames
      [] key = "num_particles" -> value < 2
      [] key = "bounds" ->
            \E d \in 1..Len(value) : Len(value[d]) # 2 \/ value[d][1] > value[d][2]
      [] key \in {"cognitive_weight", "social_weight", "inertia_weight"} -> value < 0
      [] OTHER -> FALSE

\* the key of the setter call a step of build_from_dict makes
CalledKey == CHOOSE key \in pending : key \notin pending'

\* C17: a setter given an invalid value fails at that call, and a setter call that
\* fails leaves the swarm under construction, its particles included, as it was.
C17_SetterStep ==
    pc = "build_from_dict" /\ pending' # pending =>
        /\ Invalid(CalledKey, swarm_dict[CalledKey]) => pc' = "failed"
        /\ pc' = "failed" => swarm' = swarm /\ particles' = particles

C17_SettersFailCleanly == [][C17_SetterStep]_vars

\* the required fields no setter call has set when build() is reached (build() is
\* reached only when every setter call made has succeeded)
Unset == BuilderKeys \ DOMAIN swarm_dict

\* C18: build() returns the swarm exactly when all eight required fields have been
\* set, and otherwise fails with an error that names a field that is not set; it
\* writes none of the swarm's own fields (only the problem_type of its particles).
C18_BuildStep ==
    pc = "build_from_dict" /\ pending = {} /\ pc' # pc =>
        /\ pc' = "built" <=> Unset = {}
        /\ pc' # "built" =>
              /\ pc' = "failed"
              /\ \E key \in Unset : err' = MissingProperty \o key
        /\ swarm' = swarm

C18_BuildChecksRequiredFields == [][C18_BuildStep]_vars

\* build() failed on a swarm that lacks only the field it checks last
C18_Witness ==
    /\ pc = "failed" /\ pending = {}
    /\ Unset = {"max_iterations"}
    /\ err = MissingProperty \o "max_iterations"

\* C19: no error is raised mid-run.  For every swarm build_from_dict returned, a
\* run of a standard pipeline without the exporter raises nothing in any iteration:
\* whatever fails has failed in a setter or in build(), before the run started.
C19_NoErrorMidRun ==
    Started /\ ~HasExporter => pc # "failed"

\* C20: a swarm the builder returned has, in every dimension, a lower bound
\* strictly below the upper bound.
C20_BoundsStrictlyOrdered ==
    pc = "built" =>
        \A d \in 1..Len(swarm.bounds.v) :
            /\ Len(swarm.bounds.v[d]) = 2
            /\ swarm.bounds.v[d][1] < swarm.bounds.v[d][2]

\* the builder has returned the swarm
Built == pc = "built" \/ Started

\* the configuration fields of a swarm
Configuration(s) ==
    <<s.problem_type, s.num_particles, s.dimensions, s.bounds, s.lower_bounds,
      s.upper_bounds, s.cognitive_weight, s.social_weight, s.inertia_weight,
      s.objective_function, s.max_iterations>>

C21_Consistent ==
    Built =>
        /\ swarm.bounds.k = "list"
        /\ swarm.dimensions = Len(swarm.bounds.v)
        /\ Len(swarm.lower_bounds) = swarm.dimensions
        /\ Len(swarm.upper_bounds) = swarm.dimensions
        /\ \A d \in 1..swarm.dimensions :
              /\ swarm.lower_bounds[d] = swarm.bounds.v[d][1]
              /\ swarm.upper_bounds[d] = swarm.bounds.v[d][2]
        /\ Len(particles) = swarm.num_particles
        /\ swarm.num_particles >= 2

C21_StageStep ==
    Built => Configuration(swarm') = Configuration(swarm) /\ Len(particles') = Len(particles)

\* C21: from the moment the builder returns the swarm, dimensions is the length of
\* bounds, lower_bounds and upper_bounds, these two are the first and second
\* components of bounds, there are num_particles >= 2 particles, and no stage or
\* runner step changes a configuration field or the number of particles.
C21_ConfigurationKept == []C21_Consistent /\ [][C21_StageStep]_vars

\* a run on two dimensions with different bounds has returned
C21_Witness ==
    /\ pc = "done"
    /\ swarm.current_iteration = swarm.max_iterations
    /\ swarm.dimensions = 2
    /\ swarm.lower_bounds # swarm.upper_bounds

\* the names ConvergenceCalculator knows an optimum for
KnownNames == {"sphere", "quadratic_1d", "quadratic_2d", "rastrigin"}

\* SwarmEvaluator.process reaches its line constructing the ConvergenceCalculator
Constructing == Calling("SwarmEvaluator") /\ ~ScanRaises

C22_Constructed ==
    Constructing =>
        IF swarm.objective_function \in KnownNames
        THEN /\ convergence'.function_name = swarm.objective_function
             /\ convergence'.optimal_score = 0
             /\ Len(convergence'.optimal_position) >= 1
             /\ \A d \in 1..Len(convergence'.optimal_position) :
                    convergence'.optimal_position[d] = 0
        ELSE /\ pc' = "failed"
             /\ err' = "ValueError"
             /\ convergence' = convergence
             /\ swarm'.score_precision = swarm.score_precision
             /\ swarm'.position_precision = swarm.position_precision

\* C22: constructing a ConvergenceCalculator for a function name other than sphere,
\* quadratic_1d, quadratic_2d and rastrigin fails with a ValueError, no optimum
\* derived and no precision computed; for each of the four names the object has
\* optimal_score 0 and an optimal_position of zeros.
C22_UnknownFunctionRejected == [][C22_Constructed]_vars

\* the construction for an unknown name has failed, the swarm's global best updated
\* before it and nothing after it
C22_Witness ==
    /\ pc = "failed"
    /\ err = "ValueError"
    /\ swarm.objective_function = UnknownName
    /\ swarm.global_best_score = Num(0)
    /\ convergence = NoCalculator
    /\ swarm.score_precision = <<>>

\* the order of the stages, either topology standing for InitialiseTopology
StageOrder ==
    <<{"InitialisePosition"}, {"InitialiseVelocity"},
      {"InitialiseGlobalTopology", "InitialiseRingTopology"},
      {"ParticleEvaluator"}, {"SwarmEvaluator"}, {"UpdateVelocity"}, {"UpdatePosition"},
      {"MongoDBExporter"}>>

\* a field of some particle differs between the two states of a step
ScoresChange == \E n \in 1..N : particles'[n].score # particles[n].score
VelocitiesChange == \E n \in 1..N : particles'[n].velocity # particles[n].velocity
PositionsChange == \E n \in 1..N : particles'[n].position # particles[n].position
GlobalBestChanges ==
    \/ swarm'.global_best_score # swarm.global_best_score
    \/ swarm'.global_best_position # swarm.global_best_position
    \/ swarm'.score_precision # swarm.score_precision

\* the pass at hand: its calls are made in the order of StageOrder, the evaluators find
\* what the stages before them left
C23_InOrder ==
    Started /\ pc = "pipeline" =>
        /\ idx \in 1..(Len(pipeline) + 1)
        /\ \A k \in 1..Len(pipeline) : pipeline[k] \in StageOrder[k]
        /\ Calling("SwarmEvaluator") =>
               \A n \in 1..N :
                   particles[n].score =
                       Num(Objective(swarm.objective_function, particles[n].position))
        /\ Calling("UpdateVelocity") => Len(swarm.score_precision) = i + 1
        /\ Calling("UpdatePosition") => Len(swarm.score_precision) = i + 1

\* a step of a pass calls the stage next in line, and a change is the work of its stage
C23_StageStep ==
    Started /\ pc = "pipeline" =>
        /\ idx <= Len(pipeline) => pc' = "failed" \/ idx' = idx + 1
        /\ idx = Len(pipeline) + 1 => pc' # "pipeline" \/ (idx' = 1 /\ i' = i + 1)
        /\ ScoresChange => "ParticleEvaluator" \in StageOrder[idx]
        /\ GlobalBestChanges => "SwarmEvaluator" \in StageOrder[idx]
        /\ VelocitiesChange => idx <= Len(pipeline) /\
               StageOrder[idx] \subseteq {"InitialiseVelocity", "UpdateVelocity"}
        /\ PositionsChange => idx <= Len(pipeline) /\
               StageOrder[idx] \subseteq {"InitialisePosition", "UpdatePosition"}
        /\ export_calls' # export_calls => "MongoDBExporter" \in StageOrder[idx]

\* C23: in every pass of either standard pipeline the stages are called in the order
\* InitialisePosition, InitialiseVelocity, InitialiseTopology, ParticleEvaluator,
\* SwarmEvaluator, UpdateVelocity, UpdatePosition, Export: every particle is evaluated
\* at its position before the global best is updated, and the global best is updated
\* before a velocity or a position of the pass changes.
C23_StagesInOrder == []C23_InOrder /\ [][C23_StageStep]_vars

\* the exporter has been called at the end of a pass that evaluated the particles,
\* updated the global best and moved the particles
C23_Witness ==
    /\ HasExporter
    /\ export_calls = <<0>>
    /\ Len(swarm.score_precision) = 1
    /\ \E n \in 1..N : particles[n].velocity # <<0>> /\ particles[n].score # Num(0)

\* score a is strictly better than score b: > for max, < for min
StrictlyBetter(problem_type, a, b) ==
    \/ problem_type = "max" /\ Gt(a, b)
    \/ problem_type = "min" /\ Lt(a, b)

\* particle n keeps its best over the step
BestKept(n) ==
    /\ particles'[n].best_score = particles[n].best_score
    /\ particles'[n].best_position = particles[n].best_position

C24_Evaluation ==
    Calling("ParticleEvaluator") /\ pc' # "failed" =>
        \A n \in 1..N :
            LET score == Num(Objective(swarm.objective_function, particles[n].position)) IN
            /\ particles'[n].score = score
            /\ particles'[n].position = particles[n].position
            /\ IF StrictlyBetter(particles[n].problem_type, score, particles[n].best_score)
               THEN /\ particles'[n].best_score = score
                    /\ particles'[n].best_position = particles[n].position
               ELSE BestKept(n)
            /\ ~BestKept(n) =>
                   StrictlyBetter(swarm.problem_type, score, particles[n].best_score)
            /\ score = particles[n].best_score => BestKept(n)

\* C24: evaluating a particle sets its score to the objective function at its position
\* and replaces best_score and best_position only by a score strictly better than
\* best_score (> for max, < for min); a score equal to best_score leaves both as
\* they were.
C24_StrictImprovementOnly == [][C24_Evaluation]_vars

\* a particle evaluated at a position other than its best one, to a score equal to its
\* best score, has kept its best position, while another has replaced its best
C24_Witness ==
    /\ pc = "pipeline" /\ idx = 2 /\ pipeline[1] = "ParticleEvaluator"
    /\ \E n \in 1..N :
           /\ particles[n].score = particles[n].best_score
           /\ particles[n].best_position # particles[n].position
    /\ \E n \in 1..N :
           /\ particles[n].best_score = Num(0)
           /\ particles[n].best_position = particles[n].position

\* the particles whose score is strictly better than the swarm's global best
Improving ==
    {n \in 1..N : StrictlyBetter(swarm.problem_type, particles[n].score,
                                 swarm.global_best_score)}

\* the first of the particles whose score is `score`
FirstAttaining(score) ==
    CHOOSE n \in 1..N :
        /\ particles[n].score = score
        /\ \A m \in 1..(n - 1) : particles[m].score # score

C25_Scan ==
    Calling("SwarmEvaluator") /\ ~ScanRaises =>
        /\ AtLeastAsGood(swarm.problem_type, swarm'.global_best_score,
                         swarm.global_best_score)
        /\ \A n \in 1..N :
               AtLeastAsGood(swarm.problem_type, swarm'.global_best_score,
                             particles[n].score)
        /\ IF Improving = {}
           THEN /\ swarm'.global_best_score = swarm.global_best_score
                /\ swarm'.global_best_position = swarm.global_best_position
           ELSE /\ \E n \in Improving : swarm'.global_best_score = particles[n].score
                /\ swarm'.global_best_position =
                       particles[FirstAttaining(swarm'.global_best_score)].position
        /\ swarm.global_best_score = SeededBest(swarm.problem_type) =>
               /\ Improving = 1..N
               /\ swarm'.global_best_score.k = "num"
               /\ swarm'.global_best_position # None

\* C25: SwarmEvaluator leaves as global_best_score the best of the global best it found
\* and the particles' scores, and as global_best_position the position of the first
\* particle with that score; when no particle's score is strictly better than the
\* global best it found, both stay as they were; from the seed (+inf for min, -inf for
\* max) every score improves, the first particle's included, so a particle's score
\* and position are adopted.
C25_GlobalBestScan == [][C25_Scan]_vars

\* maximising, the second and the third particle share the best score at different
\* positions, and the global best position is the second particle's
C25_Witness ==
    /\ pc = "pipeline" /\ idx = Len(pipeline) + 1
    /\ swarm.problem_type = "max"
    /\ particles[1].score = Num(0)
    /\ particles[2].position = <<-1>> /\ particles[2].score = Num(1)
    /\ particles[3].position = <<1>> /\ particles[3].score = Num(1)
    /\ swarm.global_best_score = Num(1)
    /\ swarm.global_best_position = <<-1>>

C26_Move ==
    Started /\ Calling("UpdatePosition") /\ pc' # "failed" =>
        \A n \in 1..N :
            /\ particles'[n].velocity = particles[n].velocity
            /\ Len(particles'[n].position) = D
            /\ \A d \in 1..D :
                   particles'[n].position[d] =
                       Max2(swarm.lower_bounds[d],
                            Min2(particles[n].position[d] + particles[n].velocity[d],
                                 swarm.upper_bounds[d]))

\* C26: UpdatePosition sets every particle's position, in every dimension, to the old
\* position plus the particle's velocity as it is at the call, clipped into
\* [lower_bounds, upper_bounds], and changes no velocity.
C26_PositionUpdate == [][C26_Move]_vars

\* in the first pass a particle has moved by a velocity that is not zero and has
\* stayed inside the bounds: its position is the evaluated one plus the velocity
C26_Witness ==
    /\ pc = "pipeline" /\ i = 0 /\ idx = 8
    /\ \E n \in 1..N :
          /\ particles[n].best_position # None
          /\ \E d \in 1..D : particles[n].velocity[d] # 0
          /\ \A d \in 1..D :
                particles[n].position[d] =
                    particles[n].best_position[d] + particles[n].velocity[d]

\* the neighbour of particle n that the social pull of n is towards: no neighbour has
\* a strictly better best_score, and no neighbour earlier in the list has the same
SocialNeighbour(n) ==
    LET neighbours == particles[n].neighbours
        first == CHOOSE k \in 1..Len(neighbours) :
            /\ \A j \in 1..Len(neighbours) :
                   ~StrictlyBetter(swarm.problem_type,
                                   particles[neighbours[j]].best_score,
                                   particles[neighbours[k]].best_score)
            /\ \A j \in 1..(k - 1) :
                   particles[neighbours[j]].best_score #
                       particles[neighbours[k]].best_score
    IN neighbours[first]

\* the velocities the update can give particle n when the pull is towards `towards`
PulledVelocities(n, towards) ==
    { v \in [1..D -> GridPoints] :
        \E cognitive \in Coefficients(swarm.cognitive_weight),
           social \in Coefficients(swarm.social_weight) :
            \A d \in 1..D :
                v[d] = Max2(swarm.lower_bounds[d], Min2(swarm.upper_bounds[d],
                    swarm.inertia_weight * particles[n].velocity[d]
                    + cognitive[d] * (particles[n].best_position[d]
                                      - particles[n].position[d])
                    + social[d] * (towards[d] - particles[n].position[d]))) }

C27_Pull ==
    Calling("UpdateVelocity") /\ pc' # "failed" =>
        \A n \in 1..N :
            /\ SocialNeighbour(n) # n
            /\ particles'[n].velocity \in
                   PulledVelocities(n, particles[SocialNeighbour(n)].best_position)

\* C27: in UpdateVelocity the social term of a particle is towards the best_position
\* of one of its neighbours, never its own: the neighbour with the least best_score
\* for min and the greatest for max, and among neighbours with that best_score the
\* one that comes first in the neighbours list.
C27_SocialPullFromBestNeighbour == [][C27_Pull]_vars

\* maximising, the two neighbours of the first particle share the best score with
\* bests on either side of it, and it has been pulled from rest towards the first
C27_Witness ==
    /\ pc = "pipeline" /\ idx = 2 /\ pipeline[1] = "UpdateVelocity"
    /\ swarm.problem_type = "max"
    /\ particles[1].neighbours = <<2, 3>>
    /\ particles[2].best_position = <<1>>
    /\ particles[3].best_position = <<-1>>
    /\ particles[1].position = <<0>>
    /\ particles[1].velocity = <<1>>

\* what UpdateVelocity and UpdatePosition have no business with
EvaluationOf(p) == <<p.score, p.best_score, p.best_position, p.neighbours, p.problem_type>>
GlobalBestOf(s) == <<s.global_best_score, s.global_best_position>>

C28_Update ==
    Calling("UpdateVelocity") \/ Calling("UpdatePosition") =>
        /\ N = Len(particles')
        /\ \A n \in 1..N : EvaluationOf(particles'[n]) = EvaluationOf(particles[n])
        /\ GlobalBestOf(swarm') = GlobalBestOf(swarm)
        /\ Calling("UpdateVelocity") =>
               \A n \in 1..N : particles'[n].position = particles[n].position
        /\ Calling("UpdatePosition") =>
               \A n \in 1..N : particles'[n].velocity = particles[n].velocity

\* C28: UpdateVelocity changes nothing but velocities and UpdatePosition nothing but
\* positions: every particle's score, best_score and best_position and the swarm's
\* global_best_score and global_best_position are as before the call, also for the
\* particle whose position was copied into them and is then added to in place.
C28_OnlyVelocityAndPosition == [][C28_Update]_vars

\* the particle whose position became its own best and the swarm's global best has
\* moved away from it, both bests staying where they were evaluated
C28_Witness ==
    /\ pc = "pipeline" /\ i = 0 /\ idx = 8
    /\ \E n \in 1..N :
          /\ particles[n].best_position # None
          /\ particles[n].best_score = Num(sphere(particles[n].best_position))
          /\ swarm.global_best_position = particles[n].best_position
          /\ swarm.global_best_score = particles[n].best_score
          /\ particles[n].position # particles[n].best_position

\* both evaluators of the pass at hand have returned
BothEvaluated == Started /\ (pc = "done" \/ (pc = "pipeline" /\ idx >= 6))

\* score is the best of the particles' best_score under the swarm's ordering
BestOfBests(score) ==
    /\ \A n \in 1..N : AtLeastAsGood(swarm.problem_type, score, particles[n].best_score)
    /\ \E n \in 1..N : score = particles[n].best_score

\* no particle of a minimising swarm carries the seed of Particle(None), -inf
SeededForSwarm ==
    swarm.problem_type = "min" => \A n \in 1..N : particles[n].best_score # NegInf

\* C29: in a run of a standard pipeline on a swarm the builder produced, once
\* ParticleEvaluator and SwarmEvaluator have both returned in a pass, and until the
\* pass ends, global_best_score is the best of the particles' best_score under the
\* swarm's ordering.
C29_GlobalBestIsBestOfBests == BothEvaluated => BestOfBests(swarm.global_best_score)

\* the same, of the swarms whose particles were seeded for the swarm's problem_type
C29_WhenSeededForSwarm ==
    BothEvaluated /\ SeededForSwarm => BestOfBests(swarm.global_best_score)

\* MongoDBExporter.process has been called in the last pass of the run
LastExportCalled ==
    \E k \in 1..Len(export_calls) : export_calls[k] = swarm.max_iterations - 1

\* C30: in a run of a standard pipeline with the Export stage finished_at is unset
\* until the Export stage of the last pass (current_iteration = max_iterations - 1)
\* and set from that call on, so that the Runner returns a swarm with finished_at
\* set.
C30_FinishedAtSetByLastExport ==
    HasExporter =>
        /\ ~LastExportCalled => swarm.finished_at = "None"
        /\ LastExportCalled => swarm.finished_at # "None"
        /\ pc = "done" => swarm.finished_at # "None"

====
